---- MODULE Spec2Model ----
(***************************************************************************)
(* Model of the recipe search screen of src/App.js: the component state    *)
(* (ingredients, loading, recipes, error) and the asynchronous handler     *)
(* findRecipes, whose invocations may overlap: the button is never         *)
(* disabled.  JavaScript runs each piece of a handler between two awaits   *)
(* to completion, and no other handler sees the state between two setters  *)
(* of one piece, so every such piece is one action whose result is the     *)
(* state its setters leave.  A lookup promise is                           *)
(* fetch(...).then(r => r.json()) and settles once; the continuation of    *)
(* Promise.all runs in the same turn as the settlement that decides it.    *)
(*                                                                         *)
(* Spec is the screen with any interleaving of invocations; SpecSerial     *)
(* the screen of a user who waits for a search to end; SpecFair the        *)
(* screen when every request settles; SpecRace the screen with the order   *)
(* of invocations recorded; SpecReducer the summary of one meal record.    *)
(***************************************************************************)
EXTENDS Integers, Sequences, FiniteSets, TLC

VARIABLES ingredients, loading, recipes, error, inv

\* the reducer of one meal record taken by itself: the strInstructions it
\* is handed and the summary it leaves
VARIABLES strInstructions, summary

\* the history of overlapping invocations, kept by the specification of
\* the race only: the unfinished invocations from the earliest invoked to
\* the latest, those that a later-invoked invocation finished before, and
\* whether the recipes on display were written by one of those
VARIABLES order, overtaken, stale

screen == <<ingredients, loading, recipes, error, inv>>
reducer == <<strInstructions, summary>>
race == <<order, overtaken, stale>>
vars == <<ingredients, loading, recipes, error, inv, strInstructions, summary,
          order, overtaken, stale>>

(* ------------------------------ bounds -------------------------------- *)

\* longest text typed into the input field
MaxLen == 1
\* number of invocations of findRecipes tracked at the same time
MaxSlots == 2
\* longest short list of meals the filter endpoint answers with
SmallMeals == 2
\* length of the long list of meals the filter endpoint answers with
MaxMeals == 11
\* requests (filter or lookup) that overlapping invocations hold together;
\* an invocation running alone holds as many as it issues
MaxRequests == 2

\* how far the network reorders the lookups of one invocation: a response
\* arrives for one of the first Window requests still pending
Window == 3

\* longest instructions text handed to the reducer by itself
MaxInstructions == 4

(* ----------------------------- constants ------------------------------ *)

\* data.meals.slice(0, 10)
Cap == 10
\* .slice(0, 2) of the sentences of the instructions
SummarySegments == 2

Null == "null"
EmptyInputMsg == "Please enter at least one ingredient"
NoRecipesMsg == "No recipes found for those ingredients. Try different words."
FetchErrorMsg == "An error occurred while fetching recipes. Check your network."

Min(a, b) == IF a < b THEN a ELSE b

(* ------------------------------ strings ------------------------------- *)
\* A string is a sequence of one-character strings.

Space == " "
Dot == "."
InputChars == {Space, "a"}

RECURSIVE StringsUpTo(_, _)
StringsUpTo(chars, n) ==
  IF n = 0 THEN {<<>>}
  ELSE LET shorter == StringsUpTo(chars, n - 1)
       IN shorter \cup {Append(s, c) : s \in shorter, c \in chars}

IsSpace(c) == c = Space

RECURSIVE TrimStart(_)
TrimStart(s) ==
  IF s # <<>> /\ IsSpace(Head(s)) THEN TrimStart(Tail(s)) ELSE s

RECURSIVE TrimEnd(_)
TrimEnd(s) ==
  IF s # <<>> /\ IsSpace(s[Len(s)]) THEN TrimEnd(SubSeq(s, 1, Len(s) - 1)) ELSE s

\* no trim at all
NoTrim(s) == s

\* String.prototype.trim
Trim(s) == TrimEnd(TrimStart(s))

\* String.prototype.split('.') : the segments between the dots
RECURSIVE SplitFrom(_, _, _)
SplitFrom(s, i, cur) ==
  IF i > Len(s) THEN <<cur>>
  ELSE IF s[i] = Dot THEN <<cur>> \o SplitFrom(s, i + 1, <<>>)
  ELSE SplitFrom(s, i + 1, Append(cur, s[i]))

Split(s) == SplitFrom(s, 1, <<>>)

\* Array.prototype.slice(0, n)
Slice(xs, n) == SubSeq(xs, 1, Min(Len(xs), n))

\* Array.prototype.join('.')
RECURSIVE Join(_)
Join(segs) ==
  IF segs = <<>> THEN <<>>
  ELSE IF Len(segs) = 1 THEN segs[1]
  ELSE segs[1] \o <<Dot>> \o Join(Tail(segs))

EndsWithDot(s) == s # <<>> /\ s[Len(s)] = Dot

\* encodeURIComponent over the input alphabet: a space becomes %20
RECURSIVE EncodeURIComponent(_)
EncodeURIComponent(s) ==
  IF s = <<>> THEN <<>>
  ELSE (IF Head(s) = Space THEN <<"%", "2", "0">> ELSE <<Head(s)>>)
       \o EncodeURIComponent(Tail(s))

FilterUrl(query) == <<"filter.php?i=">> \o EncodeURIComponent(query)

(* --------------------------- record reducer --------------------------- *)
\* An optional string is a sequence of at most one string.

\* the summary without the closing dot
SummaryNoDot(instructions) ==
  LET raw == IF instructions = <<>> THEN <<>> ELSE instructions[1]
  IN Trim(Join(Slice(Split(raw), SummarySegments)))

\* the summary of all the sentences
SummaryOfAll(instructions) ==
  LET raw == IF instructions = <<>> THEN <<>> ELSE instructions[1]
      cut == Trim(Join(Split(raw)))
  IN IF cut # <<>> /\ ~EndsWithDot(cut) THEN Append(cut, Dot) ELSE cut

Summary(instructions) ==
  LET raw == IF instructions = <<>> THEN <<>> ELSE instructions[1]
      cut == Trim(Join(Slice(Split(raw), SummarySegments)))
  IN IF cut # <<>> /\ ~EndsWithDot(cut) THEN Append(cut, Dot) ELSE cut

Reduce(meal) ==
  [id |-> meal.idMeal,
   name |-> meal.strMeal,
   thumbnail |-> meal.strMealThumb,
   summary |-> Summary(meal.strInstructions),
   strCategory |-> meal.strCategory,
   strArea |-> meal.strArea,
   strTags |-> meal.strTags]

(* ----------------------------- the server ----------------------------- *)
\* The recipe directory is a black box with a fixed JSON shape.  A body is
\* [kind, meals]: kind "list" carries meals, "null" is meals: null and
\* "absent" is a body without the key.

NullBody == [kind |-> "null", meals |-> <<>>]
AbsentBody == [kind |-> "absent", meals |-> <<>>]
ListBody(ms) == [kind |-> "list", meals |-> ms]

\* ids the lookup endpoint has no record for: it answers 0 with meals: null,
\* -1 with an empty list of meals and -2 with a body without the key
UnknownIds == {0, -1, -2}

InstructionsOf(id) ==
  CASE id % 4 = 0 -> <<>>
    [] id % 4 = 1 -> << <<"a", Dot, Space, "b", Dot, Space, "c", Dot>> >>
    [] id % 4 = 2 -> << <<"a", Space, "b">> >>
    [] OTHER -> << <<>> >>

MealRecord(id) ==
  [idMeal |-> id,
   strMeal |-> <<"meal", id>>,
   strMealThumb |-> IF id % 2 = 0 THEN Null ELSE "thumb",
   strInstructions |-> InstructionsOf(id),
   strCategory |-> IF id % 3 = 0 THEN Null ELSE "Beef",
   strArea |-> IF id % 3 = 1 THEN Null ELSE "Thai",
   strTags |-> Null]

\* the body of lookup.php?i=id
LookupBody(id) ==
  CASE id = 0 -> NullBody
    [] id = -1 -> ListBody(<<>>)
    [] id = -2 -> AbsentBody
    [] OTHER -> ListBody(<<MealRecord(id)>>)

\* the meal ids n, n-1, .., 1 in the order the server gives them
Descending(n) == [i \in 1..n |-> n + 1 - i]

MealLists ==
  {Descending(n) : n \in 0..SmallMeals} \cup {Descending(MaxMeals)}
  \cup {<<b, 1>> : b \in UnknownIds} \cup {<<b>> : b \in UnknownIds}

FilterBodies == {NullBody, AbsentBody} \cup {ListBody(ms) : ms \in MealLists}

\* the filter responses of at most SmallMeals meals
ShortBodies == {data \in FilterBodies : Len(data.meals) <= SmallMeals}

(* ------------------------------ the state ----------------------------- *)
\* inv[k] is one invocation of findRecipes: where it stands (pc), the url
\* of its filter request while that is under way, the meals of the filter
\* response (data.meals) and its lookup promises (detailPromises), each
\* with the id it asks for and whether it is pending or fulfilled ("ok").

Slots == 1..MaxSlots

Slot(pc, url, meals, promises) ==
  [pc |-> pc, url |-> url, meals |-> meals, promises |-> promises]

\* a slot holding no unfinished invocation
Idle == Slot("idle", <<>>, <<>>, <<>>)

InFlightPcs == {"fetch", "json", "lookups"}
InFlight(k) == inv[k].pc \in InFlightPcs

Init ==
  /\ ingredients = <<>>
  /\ loading = FALSE
  /\ recipes = <<>>
  /\ error = Null
  /\ inv = [k \in Slots |-> Idle]
  /\ strInstructions = <<>>
  /\ summary = <<>>
  /\ order = <<>>
  /\ overtaken = {}
  /\ stale = FALSE

\* the requests an unfinished invocation holds
Requests(k) ==
  CASE inv[k].pc \in {"fetch", "json"} -> 1
    [] inv[k].pc = "lookups" -> Len(inv[k].promises)
    [] OTHER -> 0

\* an invocation may hold mine requests beside the others' requests
Admitted(others, mine) == others = 0 \/ others + mine <= MaxRequests

RECURSIVE SumRequests(_)
SumRequests(ks) ==
  IF ks = {} THEN 0
  ELSE LET k == CHOOSE x \in ks : TRUE IN Requests(k) + SumRequests(ks \ {k})

(* ------------------------- pieces of findRecipes ---------------------- *)
\* Each is the state a run of setters leaves, [loading, recipes, error],
\* given the state (l, rs, e) it starts from.

View(l, rs, e) == [loading |-> l, recipes |-> rs, error |-> e]

\* setError(null), setError('Please enter ...'), return
\* a rejection that also empties the results
EmptyInputClearsRecipes(l, rs, e) == View(l, <<>>, EmptyInputMsg)

EmptyInput(l, rs, e) == View(l, rs, EmptyInputMsg)

\* a search start that leaves the results of the search before
SearchStartKeepsRecipes(l, rs, e) == View(TRUE, rs, Null)

\* setError(null), setLoading(true), setRecipes([])
SearchStart(l, rs, e) == View(TRUE, <<>>, Null)

\* setRecipes([]), setError('No recipes found ...'), setLoading(false)
\* the no-recipes outcome without setLoading(false)
NoMealsStillLoading(l, rs, e) == View(l, <<>>, NoRecipesMsg)

NoMeals(l, rs, e) == View(FALSE, <<>>, NoRecipesMsg)

\* a success that leaves the loading flag up
SuccessStillLoading(l, rs, e, mapped) == View(l, mapped, e)

\* setRecipes(mapped), then finally setLoading(false)
\* a success that also clears the error
SuccessClearsError(l, rs, e, mapped) == View(FALSE, mapped, Null)

Success(l, rs, e, mapped) == View(FALSE, mapped, e)

\* a catch without the finally
FailureStillLoading(l, rs, e) == View(l, rs, FetchErrorMsg)

\* catch: setError('An error occurred ...'), then finally setLoading(false)
Failure(l, rs, e) == View(FALSE, rs, FetchErrorMsg)

Show(v) ==
  /\ loading' = v.loading
  /\ recipes' = v.recipes
  /\ error' = v.error

\* a test that takes only meals: null for no meals
NoMealsOnlyNull(data) == data.kind = "null"

\* !data.meals
NoMealsIn(data) == data.kind # "list"

\* the whole list, uncapped
NoLimit(meals) == meals

\* data.meals.slice(0, 10)
Limit(meals) == Slice(meals, Cap)

\* limited.map(m => fetch(lookup m.idMeal).then(r => r.json()))
DetailPromises(limited) ==
  [i \in 1..Len(limited) |-> [id |-> limited[i], st |-> "pending"]]

\* d.meals[0] and the reads of its fields throw on these
Unusable(d) == d.kind # "list" \/ d.meals = <<>>

\* values gathered as they arrive: the one that settled last comes last
GatherAsSettled(values, last) ==
  [j \in 1..Len(values) |->
     IF j < last THEN values[j]
     ELSE IF j < Len(values) THEN values[j + 1]
     ELSE values[last]]

\* Promise.all: the values in the order of the promises, whichever of them
\* (the one at index last) settled last
PromiseAll(values, last) == values

\* the bodies the lookups of an invocation are fulfilled with
Bodies(promises) == [j \in 1..Len(promises) |-> LookupBody(promises[j].id)]

\* details.map(d => ...)
Mapped(details) == [i \in 1..Len(details) |-> Reduce(details[i].meals[1])]

(* ------------------------------ actions ------------------------------- *)

\* onChangeText={setIngredients}
SetIngredients(text) ==
  /\ text # ingredients
  /\ ingredients' = text
  /\ UNCHANGED <<loading, recipes, error, inv>>

FreeSlot(k) == ~InFlight(k) /\ \A j \in Slots : j < k => InFlight(j)

\* findRecipes up to its first await
FindRecipes ==
  LET query == Trim(ingredients)
  IN IF query = <<>>
     THEN /\ Show(EmptyInput(loading, recipes, error))
          /\ UNCHANGED <<ingredients, inv>>
     ELSE \E k \in Slots :
            /\ FreeSlot(k)
            /\ Admitted(SumRequests(Slots), 1)
            /\ Show(SearchStart(loading, recipes, error))
            /\ inv' = [inv EXCEPT ![k] = Slot("fetch", FilterUrl(query), <<>>, <<>>)]
            /\ UNCHANGED ingredients

\* await fetch(url) settles with a response
FilterFetched(k) ==
  /\ inv[k].pc = "fetch"
  /\ inv' = [inv EXCEPT ![k] = Slot("json", <<>>, <<>>, <<>>)]
  /\ UNCHANGED <<ingredients, loading, recipes, error>>

\* await fetch(url) rejects
FilterFetchFailed(k) ==
  /\ inv[k].pc = "fetch"
  /\ Show(Failure(loading, recipes, error))
  /\ inv' = [inv EXCEPT ![k] = Idle]
  /\ UNCHANGED ingredients

\* await res.json() rejects: the body is no JSON
FilterParseFailed(k) ==
  /\ inv[k].pc = "json"
  /\ Show(Failure(loading, recipes, error))
  /\ inv' = [inv EXCEPT ![k] = Idle]
  /\ UNCHANGED ingredients

\* await res.json() gives data without meals
FilterNoMeals(k, data) ==
  /\ inv[k].pc = "json"
  /\ NoMealsIn(data)
  /\ Show(NoMeals(loading, recipes, error))
  /\ inv' = [inv EXCEPT ![k] = Idle]
  /\ UNCHANGED ingredients

\* await res.json() gives data with an empty list of meals: Promise.all of
\* no promises resolves, nothing is mapped
FilterNoCandidates(k, data) ==
  /\ inv[k].pc = "json"
  /\ ~NoMealsIn(data)
  /\ Limit(data.meals) = <<>>
  /\ Show(Success(loading, recipes, error, Mapped(<<>>)))
  /\ inv' = [inv EXCEPT ![k] = Idle]
  /\ UNCHANGED ingredients

\* await res.json() gives data with meals: the lookups are issued
FilterCandidates(k, data) ==
  /\ inv[k].pc = "json"
  /\ ~NoMealsIn(data)
  /\ Limit(data.meals) # <<>>
  /\ Admitted(SumRequests(Slots \ {k}), Min(Len(data.meals), Cap))
  /\ inv' = [inv EXCEPT ![k] =
       Slot("lookups", <<>>, data.meals, DetailPromises(Limit(data.meals)))]
  /\ UNCHANGED <<ingredients, loading, recipes, error>>

\* await res.json() gives data: lines 62-77, up to await Promise.all
FilterParsed(k, data) ==
  \/ FilterNoMeals(k, data)
  \/ FilterNoCandidates(k, data)
  \/ FilterCandidates(k, data)

\* the pending requests before the i-th
Ahead(promises, i) ==
  Cardinality({j \in DOMAIN promises : j < i /\ promises[j].st = "pending"})

Pending(k, i) ==
  /\ inv[k].pc = "lookups"
  /\ i \in DOMAIN inv[k].promises
  /\ inv[k].promises[i].st = "pending"

LastPending(k, i) ==
  /\ Pending(k, i)
  /\ \A j \in DOMAIN inv[k].promises : j # i => inv[k].promises[j].st = "ok"

\* the i-th lookup promise is fulfilled while others are pending
LookupFulfilled(k, i) ==
  /\ Pending(k, i)
  /\ ~LastPending(k, i)
  /\ Ahead(inv[k].promises, i) < Window
  /\ inv' = [inv EXCEPT ![k].promises[i].st = "ok"]
  /\ UNCHANGED <<ingredients, loading, recipes, error>>

\* the last pending lookup promise, the i-th, is fulfilled: Promise.all
\* resolves and the details are mapped and shown
DetailsMapped(k, i) ==
  /\ LastPending(k, i)
  /\ LET details == PromiseAll(Bodies(inv[k].promises), i)
     IN /\ \A j \in DOMAIN details : ~Unusable(details[j])
        /\ Show(Success(loading, recipes, error, Mapped(details)))
  /\ inv' = [inv EXCEPT ![k] = Idle]
  /\ UNCHANGED ingredients

\* the last pending lookup promise is fulfilled and the map throws on a
\* body without a meal
DetailsUnusable(k, i) ==
  /\ LastPending(k, i)
  /\ LET details == PromiseAll(Bodies(inv[k].promises), i)
     IN \E j \in DOMAIN details : Unusable(details[j])
  /\ Show(Failure(loading, recipes, error))
  /\ inv' = [inv EXCEPT ![k] = Idle]
  /\ UNCHANGED ingredients

\* the i-th lookup promise is rejected (the request or its json() fails):
\* Promise.all rejects at once; the lookups still pending settle later
\* into nothing
LookupRejected(k, i) ==
  /\ Pending(k, i)
  /\ Show(Failure(loading, recipes, error))
  /\ inv' = [inv EXCEPT ![k] = Idle]
  /\ UNCHANGED ingredients

Next ==
  \/ (\E text \in StringsUpTo(InputChars, MaxLen) : SetIngredients(text)) /\ UNCHANGED <<reducer, race>>
  \/ (FindRecipes) /\ UNCHANGED <<reducer, race>>
  \/ (\E k \in Slots : FilterFetched(k)) /\ UNCHANGED <<reducer, race>>
  \/ (\E k \in Slots : FilterFetchFailed(k)) /\ UNCHANGED <<reducer, race>>
  \/ (\E k \in Slots : FilterParseFailed(k)) /\ UNCHANGED <<reducer, race>>
  \/ (\E k \in Slots, data \in FilterBodies : FilterParsed(k, data)) /\ UNCHANGED <<reducer, race>>
  \/ (\E k \in Slots : \E i \in DOMAIN inv[k].promises : LookupFulfilled(k, i)) /\ UNCHANGED <<reducer, race>>
  \/ (\E k \in Slots : \E i \in DOMAIN inv[k].promises : DetailsMapped(k, i)) /\ UNCHANGED <<reducer, race>>
  \/ (\E k \in Slots : \E i \in DOMAIN inv[k].promises : DetailsUnusable(k, i)) /\ UNCHANGED <<reducer, race>>
  \/ (\E k \in Slots : \E i \in DOMAIN inv[k].promises : LookupRejected(k, i)) /\ UNCHANGED <<reducer, race>>

Spec == Init /\ [][Next]_vars

\* the user waits for a search to end before pressing the button again
NoneInFlight == \A k \in Slots : ~InFlight(k)

NextSerial ==
  \/ (\E text \in StringsUpTo(InputChars, MaxLen) : SetIngredients(text)) /\ UNCHANGED <<reducer, race>>
  \/ (NoneInFlight /\ FindRecipes) /\ UNCHANGED <<reducer, race>>
  \/ (\E k \in Slots : FilterFetched(k)) /\ UNCHANGED <<reducer, race>>
  \/ (\E k \in Slots : FilterFetchFailed(k)) /\ UNCHANGED <<reducer, race>>
  \/ (\E k \in Slots : FilterParseFailed(k)) /\ UNCHANGED <<reducer, race>>
  \/ (\E k \in Slots, data \in FilterBodies : FilterParsed(k, data)) /\ UNCHANGED <<reducer, race>>
  \/ (\E k \in Slots : \E i \in DOMAIN inv[k].promises : LookupFulfilled(k, i)) /\ UNCHANGED <<reducer, race>>
  \/ (\E k \in Slots : \E i \in DOMAIN inv[k].promises : DetailsMapped(k, i)) /\ UNCHANGED <<reducer, race>>
  \/ (\E k \in Slots : \E i \in DOMAIN inv[k].promises : DetailsUnusable(k, i)) /\ UNCHANGED <<reducer, race>>
  \/ (\E k \in Slots : \E i \in DOMAIN inv[k].promises : LookupRejected(k, i)) /\ UNCHANGED <<reducer, race>>

SpecSerial == Init /\ [][NextSerial]_vars

TypeOK ==
  /\ ingredients \in StringsUpTo(InputChars, MaxLen)
  /\ loading \in BOOLEAN
  /\ error \in {Null, EmptyInputMsg, NoRecipesMsg, FetchErrorMsg}
  /\ \A k \in Slots : inv[k].pc \in InFlightPcs \cup {"idle"}

(* ------------------------- requests that settle ----------------------- *)
\* Every request that was issued settles, and its continuation runs: the
\* steps of invocation k that follow a response, a rejection or a parsed
\* body are taken as long as one of them is possible.

Settle(k) ==
  /\ \/ FilterFetched(k)
     \/ FilterFetchFailed(k)
     \/ FilterParseFailed(k)
     \/ \E data \in FilterBodies : FilterParsed(k, data)
     \/ \E i \in DOMAIN inv[k].promises :
          \/ LookupRejected(k, i)
          \/ LookupFulfilled(k, i)
          \/ DetailsUnusable(k, i)
          \/ DetailsMapped(k, i)
  /\ UNCHANGED <<reducer, race>>

\* the screen against filter responses of at most SmallMeals meals, with a
\* user who types between searches, not during one
NextShort ==
  \/ (NoneInFlight /\ \E text \in StringsUpTo(InputChars, MaxLen) : SetIngredients(text)) /\ UNCHANGED <<reducer, race>>
  \/ (FindRecipes) /\ UNCHANGED <<reducer, race>>
  \/ (\E k \in Slots : FilterFetched(k)) /\ UNCHANGED <<reducer, race>>
  \/ (\E k \in Slots : FilterFetchFailed(k)) /\ UNCHANGED <<reducer, race>>
  \/ (\E k \in Slots : FilterParseFailed(k)) /\ UNCHANGED <<reducer, race>>
  \/ (\E k \in Slots, data \in ShortBodies : FilterParsed(k, data)) /\ UNCHANGED <<reducer, race>>
  \/ (\E k \in Slots : \E i \in DOMAIN inv[k].promises : LookupFulfilled(k, i)) /\ UNCHANGED <<reducer, race>>
  \/ (\E k \in Slots : \E i \in DOMAIN inv[k].promises : DetailsMapped(k, i)) /\ UNCHANGED <<reducer, race>>
  \/ (\E k \in Slots : \E i \in DOMAIN inv[k].promises : DetailsUnusable(k, i)) /\ UNCHANGED <<reducer, race>>
  \/ (\E k \in Slots : \E i \in DOMAIN inv[k].promises : LookupRejected(k, i)) /\ UNCHANGED <<reducer, race>>

SpecFair == Init /\ [][NextShort]_vars /\ \A k \in Slots : WF_vars(Settle(k))

(* --------------------- the history of a race -------------------------- *)
\* The handlers of NextShort, each with the history its step leaves.  An
\* invocation is overtaken once one invoked after it has finished.

\* the slots before k in order
Earlier(k) == {order[j] : j \in {j \in DOMAIN order : \E m \in DOMAIN order : j < m /\ order[m] = k}}

RECURSIVE Without(_, _)
Without(seq, ks) ==
  IF seq = <<>> THEN <<>>
  ELSE IF Head(seq) \in ks THEN Without(Tail(seq), ks)
  ELSE <<Head(seq)>> \o Without(Tail(seq), ks)

\* writes says what the step does to recipes: "keep" leaves them, "clear"
\* empties them and "own" puts the finishing invocation's recipes there
Track(writes) ==
  LET begun == {k \in Slots : ~InFlight(k) /\ inv'[k].pc \in InFlightPcs}
      ended == {k \in Slots : InFlight(k) /\ inv'[k].pc = "idle"}
  IN /\ order' = Without(order, ended) \o (IF begun = {} THEN <<>> ELSE <<CHOOSE k \in begun : TRUE>>)
     /\ overtaken' = (overtaken \cup UNION {Earlier(k) : k \in ended}) \ ended
     /\ stale' = CASE writes = "keep" -> stale
                    [] writes = "clear" -> FALSE
                    [] OTHER -> ended \cap overtaken # {}
     /\ UNCHANGED reducer

NextRace ==
  \/ (NoneInFlight /\ \E text \in StringsUpTo(InputChars, MaxLen) : SetIngredients(text)) /\ Track("keep")
  \/ (FindRecipes /\ Trim(ingredients) = <<>>) /\ Track("keep")
  \/ (FindRecipes /\ Trim(ingredients) # <<>>) /\ Track("clear")
  \/ (\E k \in Slots : FilterFetched(k)) /\ Track("keep")
  \/ (\E k \in Slots : FilterFetchFailed(k)) /\ Track("keep")
  \/ (\E k \in Slots : FilterParseFailed(k)) /\ Track("keep")
  \/ (\E k \in Slots, data \in ShortBodies : FilterNoMeals(k, data)) /\ Track("clear")
  \/ (\E k \in Slots, data \in ShortBodies : FilterNoCandidates(k, data)) /\ Track("own")
  \/ (\E k \in Slots, data \in ShortBodies : FilterCandidates(k, data)) /\ Track("keep")
  \/ (\E k \in Slots : \E i \in DOMAIN inv[k].promises : LookupFulfilled(k, i)) /\ Track("keep")
  \/ (\E k \in Slots : \E i \in DOMAIN inv[k].promises : DetailsMapped(k, i)) /\ Track("own")
  \/ (\E k \in Slots : \E i \in DOMAIN inv[k].promises : DetailsUnusable(k, i)) /\ Track("keep")
  \/ (\E k \in Slots : \E i \in DOMAIN inv[k].promises : LookupRejected(k, i)) /\ Track("keep")

SpecRace == Init /\ [][NextRace]_vars

(* ------------------------ the reducer by itself ----------------------- *)
\* The summary of a meal depends on its strInstructions alone, so it is
\* run here on every instructions text over a small alphabet, and on the
\* texts of two recipes.  strInstructions is the optional text; summary
\* is empty until the reducer ran and then holds the one summary.

InstructionChars == {"a", Dot, Space}

BoilWater ==
  <<"B", "o", "i", "l", " ", "w", "a", "t", "e", "r", ".", " ", "A", "d",
    "d", " ", "p", "a", "s", "t", "a", ".", " ", "S", "t", "i", "r", " ",
    "o", "c", "c", "a", "s", "i", "o", "n", "a", "l", "l", "y", ".", " ",
    "S", "e", "r", "v", "e", " ", "h", "o", "t", ".">>

MixWell ==
  <<"M", "i", "x", " ", "w", "e", "l", "l">>

Instructions ==
  {<<>>} \cup {<<s>> : s \in StringsUpTo(InstructionChars, MaxInstructions)
                           \cup {BoilWater, MixWell}}

InitReducer ==
  /\ ingredients = <<>>
  /\ loading = FALSE
  /\ recipes = <<>>
  /\ error = Null
  /\ inv = [k \in Slots |-> Idle]
  /\ strInstructions \in Instructions
  /\ summary = <<>>
  /\ order = <<>>
  /\ overtaken = {}
  /\ stale = FALSE

\* summary = meal.strInstructions || '' and what lines 84-85 make of it
Summarize ==
  /\ summary = <<>>
  /\ summary' = <<Summary(strInstructions)>>
  /\ UNCHANGED strInstructions
  /\ UNCHANGED <<screen, race>>

\* a summary is handed to the reducer as the instructions of a meal
Resubmit ==
  /\ summary # <<>>
  /\ strInstructions' = summary
  /\ summary' = <<>>
  /\ UNCHANGED <<screen, race>>

NextReducer == Summarize \/ Resubmit

SpecReducer == InitReducer /\ [][NextReducer]_vars

(* ------------------------------- claims ------------------------------- *)

IsBlank(s) == \A i \in 1..Len(s) : s[i] = Space

\* C1: invoking findRecipes on an empty or all-whitespace input sets error
\* to 'Please enter at least one ingredient', issues no request (no
\* invocation gains a filter or lookup request) and leaves loading alone.
C1_BlankInputRejected ==
  [][(FindRecipes /\ IsBlank(ingredients))
       => (error' = EmptyInputMsg /\ inv' = inv /\ loading' = loading)]_vars

C1_Witness ==
  /\ ingredients = <<Space>>
  /\ error = EmptyInputMsg
  /\ ~loading
  /\ NoneInFlight

\* C2: in every reachable state a set error means empty results.
C2_ErrorExcludesResults == error # Null => recipes = <<>>

\* an invocation ends with one of the four kinds of error
EndsInError ==
  \/ FindRecipes /\ IsBlank(ingredients)
  \/ \E k \in Slots :
       \/ FilterFetchFailed(k)
       \/ FilterParseFailed(k)
       \/ \E data \in FilterBodies : FilterNoMeals(k, data)
       \/ \E i \in DOMAIN inv[k].promises : LookupRejected(k, i) \/ DetailsUnusable(k, i)

\* C3: when an invocation ends with any of the four kinds of error, the
\* state then has an error message and empty results, whatever the results
\* were before.
C3_ErrorsResetResults ==
  [][EndsInError => (error' # Null /\ recipes' = <<>>)]_vars

\* C4: when a lookup request of an invocation fails, the invocation ends
\* with the fetch error message and empty results.
C4_LookupFailureEndsFailed ==
  [][\A k \in Slots : \A i \in DOMAIN inv[k].promises :
       LookupRejected(k, i)
         => (error' = FetchErrorMsg /\ recipes' = <<>> /\ inv'[k] = Idle)]_vars

\* C5: an invocation with a non-empty trimmed query clears error and
\* results in the step that issues its filter request, which asks for the
\* encoded trimmed query.
C5_StartClearsErrorAndResults ==
  [][(FindRecipes /\ ~IsBlank(ingredients))
       => /\ error' = Null
          /\ recipes' = <<>>
          /\ \E k \in Slots :
               /\ inv[k].pc = "idle"
               /\ inv'[k].pc = "fetch"
               /\ inv'[k].url = FilterUrl(Trim(ingredients))]_vars

C5_Witness ==
  /\ error = Null
  /\ recipes = <<>>
  /\ loading
  /\ \E k \in Slots : inv[k].pc = "fetch" /\ inv[k].url = FilterUrl(<<"a">>)

\* C6: an invocation whose filter response has N meals holds exactly
\* min(N, 10) lookup requests, the i-th for the i-th meal id of the response.
C6_LookupsCappedInOrder ==
  \A k \in Slots :
    inv[k].pc = "lookups" =>
      LET n == Len(inv[k].meals)
          m == IF n < 10 THEN n ELSE 10
      IN /\ Len(inv[k].promises) = m
         /\ \A i \in 1..m : inv[k].promises[i].id = inv[k].meals[i]

C6_Witness ==
  \E k \in Slots :
    /\ inv[k].pc = "lookups"
    /\ Len(inv[k].meals) > 10
    /\ Len(inv[k].promises) = 10
    /\ inv[k].promises[10].id = inv[k].meals[10]

\* C7: when the last lookup of an invocation is fulfilled and the details
\* are shown, results has one recipe per candidate and the i-th recipe is
\* the reduced record of the i-th candidate, whichever lookup came last.
C7_ResultsFollowCandidates ==
  [][\A k \in Slots : \A i \in DOMAIN inv[k].promises :
       DetailsMapped(k, i)
         => /\ Len(recipes') = Len(inv[k].promises)
            /\ \A j \in 1..Len(recipes') :
                 /\ recipes'[j].id = inv[k].promises[j].id
                 /\ recipes'[j] = Reduce(MealRecord(inv[k].promises[j].id))]_vars

C7_Witness ==
  /\ Len(recipes) = 2
  /\ recipes[1].id = 2
  /\ recipes[2].id = 1
  /\ NoneInFlight

\* C8: a filter response with meals null or absent ends the invocation
\* with the 'No recipes found' message, empty results, loading false and no
\* lookup request.
C8_NoMealsEndsEmpty ==
  [][\A k \in Slots, data \in {NullBody, AbsentBody} :
       FilterParsed(k, data)
         => /\ error' = NoRecipesMsg
            /\ recipes' = <<>>
            /\ loading' = FALSE
            /\ inv'[k] = Idle]_vars

C8_Witness ==
  /\ error = NoRecipesMsg
  /\ recipes = <<>>
  /\ ~loading
  /\ NoneInFlight

\* C9: loading is true only while some accepted invocation has started and
\* has not yet ended.
C9_LoadingOnlyWhileSearching == loading => \E k \in Slots : InFlight(k)

C9_Witness == loading /\ \E k \in Slots : inv[k].pc = "lookups"

\* C10: with one invocation at a time, an invocation whose filter request
\* and lookups all succeed with usable records ends with min(N, 10)
\* results, loading false and no error.
C10_SingleSuccess ==
  [][\A k \in Slots :
       /\ \A i \in DOMAIN inv[k].promises :
            DetailsMapped(k, i)
              => /\ Len(recipes') =
                      (IF Len(inv[k].meals) < 10 THEN Len(inv[k].meals) ELSE 10)
                 /\ loading' = FALSE
                 /\ error' = Null
       /\ \A data \in FilterBodies :
            FilterNoCandidates(k, data)
              => (recipes' = <<>> /\ loading' = FALSE /\ error' = Null)]_vars

C10_Witness ==
  /\ Len(recipes) = 10
  /\ ~loading
  /\ error = Null
  /\ NoneInFlight

\* the text before the second dot of s, or all of s when it has fewer dots
BeforeSecondDot(s) ==
  LET second == {i \in 1..Len(s) :
                   s[i] = Dot /\ Cardinality({j \in 1..(i - 1) : s[j] = Dot}) = 1}
  IN IF second = {} THEN s
     ELSE SubSeq(s, 1, (CHOOSE i \in second : TRUE) - 1)

\* s from its first to its last character that is not a space
Stripped(s) ==
  LET solid == {i \in 1..Len(s) : s[i] # Space}
  IN IF solid = {} THEN <<>>
     ELSE SubSeq(s, CHOOSE i \in solid : \A j \in solid : i <= j,
                    CHOOSE i \in solid : \A j \in solid : j <= i)

ReferenceSummary(instructions) ==
  LET raw == IF instructions = <<>> THEN <<>> ELSE instructions[1]
      cut == Stripped(BeforeSecondDot(raw))
  IN IF cut = <<>> \/ cut[Len(cut)] = Dot THEN cut ELSE cut \o <<Dot>>

BoilWaterSummary ==
  <<"B", "o", "i", "l", " ", "w", "a", "t", "e", "r", ".", " ", "A", "d",
    "d", " ", "p", "a", "s", "t", "a", ".">>

\* C11: the summary of a meal is the reference summary of its
\* instructions (the first two segments between dots, joined by a dot,
\* trimmed, and closed by a dot iff non-empty and not ending in one):
\* 'Boil water. Add pasta. Stir occasionally. Serve hot.' gives
\* 'Boil water. Add pasta.', 'Mix well' gives 'Mix well.', and absent or
\* empty instructions give ''.
C11_SummaryIsReference ==
  summary # <<>>
    => /\ summary[1] = ReferenceSummary(strInstructions)
       /\ strInstructions = <<BoilWater>> => summary[1] = BoilWaterSummary
       /\ strInstructions = <<MixWell>> => summary[1] = MixWell \o <<Dot>>
       /\ strInstructions \in {<<>>, << <<>> >>} => summary[1] = <<>>

C11_Witness ==
  strInstructions = <<BoilWater>> /\ summary = <<BoilWaterSummary>>

\* the steps in which invocation k ends in the catch block
Caught(k) ==
  \/ FilterFetchFailed(k)
  \/ FilterParseFailed(k)
  \/ \E i \in DOMAIN inv[k].promises : LookupRejected(k, i) \/ DetailsUnusable(k, i)

\* C12: what is displayed is decided by the order in which overlapping
\* invocations complete, not the order in which they were invoked: an
\* invocation that a later-invoked one finished before still puts its own
\* recipes on display and leaves the error as it finds it, and an
\* invocation that fails sets the error and leaves on display the recipes
\* it finds.  So both may have completed with the earlier-invoked query's
\* recipes on display, beside an error set by the other (C12_Witness).
C12_CompletionOrderDecides ==
  [][\A k \in Slots :
       /\ \A i \in DOMAIN inv[k].promises :
            (k \in overtaken /\ DetailsMapped(k, i))
              => (recipes' = Mapped(Bodies(inv[k].promises)) /\ error' = error)
       /\ Caught(k) => (error' = FetchErrorMsg /\ recipes' = recipes)]_vars

C12_Witness ==
  /\ NoneInFlight
  /\ stale
  /\ recipes # <<>>
  /\ error = FetchErrorMsg

\* C13: when every lookup of an invocation is answered and one answer is
\* unusable (meals null, absent or an empty list), the invocation ends
\* with the generic fetch-error message and empty results.
C13_UnusableLookupEndsFailed ==
  [][\A k \in Slots : \A i \in DOMAIN inv[k].promises :
       DetailsUnusable(k, i)
         => (error' = FetchErrorMsg /\ recipes' = <<>> /\ inv'[k] = Idle)]_vars

\* the steps in which findRecipes accepts its input and starts a search
Accepted == FindRecipes /\ ~IsBlank(ingredients)

\* C14 as stated: when every request settles, every accepted invocation
\* is followed by a state with loading false and no invocation in flight.
C14_QuietAfterEveryInvocation ==
  \A k \in Slots : InFlight(k) ~> (~loading /\ NoneInFlight)

\* C14, amended: when every request settles, every accepted invocation
\* eventually completes and loading never stays true forever; and once no
\* further invocation is accepted, loading is false with no invocation in
\* flight from some point on.
C14_EveryInvocationCompletes ==
  /\ \A k \in Slots : InFlight(k) ~> ~InFlight(k)
  /\ []<>(~loading)
  /\ <>[][~Accepted]_vars => <>[](~loading /\ NoneInFlight)

C14_Witness ==
  /\ ~loading
  /\ NoneInFlight
  /\ error = FetchErrorMsg
  /\ recipes = <<>>

\* the steps in which invocation k ends, whatever the outcome
Ends(k) ==
  \/ Caught(k)
  \/ \E data \in FilterBodies : FilterNoMeals(k, data) \/ FilterNoCandidates(k, data)
  \/ \E i \in DOMAIN inv[k].promises : DetailsMapped(k, i)

\* a step in which invocation k ends and changes the results or the error
EndsVisibly(k) ==
  /\ Ends(k)
  /\ recipes' # recipes \/ error' # error
  /\ UNCHANGED <<reducer, race>>

\* C15: loading does not track the invocations in flight: an invocation
\* that ends sets loading to false whatever else is in flight and leaves
\* every other invocation as it is.  So loading can be false while an
\* invocation is in flight that will still change the results or the
\* error (C15_Witness).
C15_EndingClearsLoading ==
  [][\A k \in Slots :
       (InFlight(k) /\ ~InFlight(k)')
         => (loading' = FALSE /\ \A j \in Slots \ {k} : inv'[j] = inv[j])]_vars

C15_Witness ==
  /\ ~loading
  /\ \E k \in Slots : InFlight(k) /\ ENABLED EndsVisibly(k)

\* C16: findRecipes on an empty or all-whitespace input leaves the query
\* text, loading and the results exactly as they were (results of an
\* earlier success stay on display), and no step of any invocation of
\* findRecipes changes the query text.
C16_RejectionChangesOnlyError ==
  [][/\ (FindRecipes /\ IsBlank(ingredients))
          => (ingredients' = ingredients /\ loading' = loading
              /\ recipes' = recipes)
     /\ (FindRecipes \/ inv' # inv) => ingredients' = ingredients]_vars

C16_Witness ==
  /\ IsBlank(ingredients)
  /\ error = EmptyInputMsg
  /\ recipes # <<>>
  /\ NoneInFlight

Dots(s) == Cardinality({i \in 1..Len(s) : s[i] = Dot})

\* C17: every non-empty summary ends with a dot, holds at most two dots
\* and neither starts nor ends with a space, and the summary of a summary
\* is that summary.
C17_SummaryIsNormalForm ==
  summary # <<>>
    => LET s == summary[1]
       IN /\ s # <<>> => /\ s[Len(s)] = Dot
                          /\ Dots(s) <= 2
                          /\ s[1] # Space
          /\ Summary(summary) = s

C17_Witness ==
  /\ summary # <<>>
  /\ summary = strInstructions
  /\ Dots(summary[1]) = 2
  /\ Len(summary[1]) > MaxInstructions

====
